---------------------------- MODULE Spec2Model ----------------------------
(***************************************************************************)
(* Date Night Cottage: the invite lifecycle.                               *)
(*                                                                         *)
(* The store is the SQLite database of three tables (date_nights, invites, *)
(* selections).  Several server processes may run against the same store,  *)
(* so every SQL statement of a handler is one atomic step and the steps of *)
(* different processes interleave.  Each process of Procs handles one      *)
(* request at a time; pc[p] = "done" means that process p is idle.  The    *)
(* locals of a request die with it.  `out` is the output of the step just  *)
(* taken: when the step finished a request, what the client and the mail   *)
(* provider saw of it, and NoOutcome after every other step.               *)
(*                                                                         *)
(* Text is a sequence of atoms: " " and "\n" are whitespace characters,    *)
(* every other atom is a run of text that starts and ends with a           *)
(* non-whitespace character and holds no line break.                       *)
(*                                                                         *)
(* The columns created_at, date_iso and the admin session gate play no     *)
(* part in the invite lifecycle and are left out.                          *)
(***************************************************************************)
EXTENDS Integers, Sequences, FiniteSets, TLC

(***************************************************************************)
(* Bounds of the model.                                                    *)
(***************************************************************************)
MaxEvents == 1        \* date nights ever created
MaxInvites == 2       \* invites ever inserted
MaxTokens == 2        \* distinct values nanoid(22) can return
MaxSelections == 2    \* selections ever inserted
MaxClock == 3         \* the last instant of the wall clock

Procs == {"p1", "p2"}
EventIds == 1..MaxEvents
InviteIds == 1..MaxInvites
Tokens == 1..MaxTokens
SelectionIds == 1..MaxSelections

(***************************************************************************)
(* Text.                                                                   *)
(***************************************************************************)
Whitespace == {" ", "\n"}

RECURSIVE TrimStart(_)
TrimStart(s) ==
    IF s = <<>> THEN <<>>
    ELSE IF Head(s) \in Whitespace THEN TrimStart(Tail(s)) ELSE s

RECURSIVE TrimEnd(_)
TrimEnd(s) ==
    IF s = <<>> THEN <<>>
    ELSE IF s[Len(s)] \in Whitespace THEN TrimEnd(SubSeq(s, 1, Len(s) - 1)) ELSE s

\* String.prototype.trim
Trim(s) == TrimEnd(TrimStart(s))

\* the SQL NULL / JavaScript null of a text column
NullText == <<"<null>">>
\* `x || null`
OrNull(s) == IF s = <<>> THEN NullText ELSE s
\* the used_at of an invite that was never used
NoTime == 0
\* the id of a row that a SELECT did not find
NoId == 0

\* input.split("\n")
RECURSIVE SplitLines(_, _)
SplitLines(s, cur) ==
    IF s = <<>> THEN <<cur>>
    ELSE IF Head(s) = "\n" THEN <<cur>> \o SplitLines(Tail(s), <<>>)
    ELSE SplitLines(Tail(s), Append(cur, Head(s)))

RECURSIVE MapTrim(_)
MapTrim(ls) == IF ls = <<>> THEN <<>> ELSE <<Trim(Head(ls))>> \o MapTrim(Tail(ls))

RECURSIVE FilterNonEmpty(_)
FilterNonEmpty(ls) ==
    IF ls = <<>> THEN <<>>
    ELSE IF Head(ls) = <<>> THEN FilterNonEmpty(Tail(ls))
    ELSE <<Head(ls)>> \o FilterNonEmpty(Tail(ls))

parseLines(input) == FilterNonEmpty(MapTrim(SplitLines(input, <<>>)))

\* Array.prototype.includes on an array of strings
Includes(arr, x) == \E i \in 1..Len(arr) : arr[i] = x

(***************************************************************************)
(* The menu document stored in date_nights.menu_json.  A group of the      *)
(* document is a JSON array of strings or some other JSON value.           *)
(***************************************************************************)
JArray(items) == [isArray |-> TRUE, items |-> items]
JOther == [isArray |-> FALSE, items |-> <<>>]
MenuDoc(d, a, m) == [dinner |-> d, activity |-> a, mood |-> m]

ArrayOrEmpty(j) == IF j.isArray THEN j.items ELSE <<>>

safeParseMenuJson(menuJson) ==
    [dinner |-> ArrayOrEmpty(menuJson.dinner),
     activity |-> ArrayOrEmpty(menuJson.activity),
     mood |-> ArrayOrEmpty(menuJson.mood)]

(***************************************************************************)
(* The theme catalog.                                                      *)
(***************************************************************************)
THEMES ==
    << [id |-> <<"cottagecore-classic">>,
        name |-> <<"Cottagecore Classic">>,
        blurb |-> <<"Warm bread, soft blankets, candlelight, and gentle joy.">>,
        options |->
          [dinner |-> << <<"Soup + fresh bread">>, <<"Pasta night">>,
                         <<"Charcuterie + fruit">>, <<"Takeout plated nicely">> >>,
           activity |-> << <<"Bake something sweet">>, <<"Cozy movie">>,
                           <<"Board games">>, <<"Long chat + tea">> >>,
           mood |-> << <<"Romantic">>, <<"Soft & slow">>, <<"Playful">>,
                       <<"Deep & cozy">> >>]] >>

NoTheme == [id |-> <<>>, name |-> <<>>, blurb |-> <<>>,
            options |-> [dinner |-> <<>>, activity |-> <<>>, mood |-> <<>>]]

getTheme(id) ==
    LET hits == {i \in 1..Len(THEMES) : THEMES[i].id = id}
    IN IF hits = {} THEN NoTheme
       ELSE THEMES[CHOOSE i \in hits : \A j \in hits : i <= j]

OptionsDoc(options) ==
    MenuDoc(JArray(options.dinner), JArray(options.activity), JArray(options.mood))


(***************************************************************************)
(* The state.                                                              *)
(***************************************************************************)
VARIABLES
    date_nights,    \* table date_nights: id -> row
    invites,        \* table invites: id -> row
    selections,     \* table selections: id -> row
    clock,          \* the wall clock read by new Date()
    ids,            \* per table: how many rows were ever inserted
    pc,             \* per process: the statement its request is at
    loc,            \* per process: the local variables of its request
    out             \* the outcome of the request that the last step finished

db == <<date_nights, invites, selections>>
vars == <<date_nights, invites, selections, clock, ids, pc, loc, out>>

\* rows as a SELECT * returns them; the rows with id NoId stand for `undefined`
NoInvite == [id |-> NoId, date_night_id |-> NoId, token |-> 0,
             recipient_email |-> NullText, used_at |-> NoTime]
NoDateNight == [id |-> NoId, title |-> <<>>, theme_id |-> <<>>,
                menu_json |-> MenuDoc(JOther, JOther, JOther), blurb |-> NullText]

InviteRow(id) ==
    [id |-> id, date_night_id |-> invites[id].date_night_id, token |-> invites[id].token,
     recipient_email |-> invites[id].recipient_email, used_at |-> invites[id].used_at]

DateNightRow(id) ==
    [id |-> id, title |-> date_nights[id].title, theme_id |-> date_nights[id].theme_id,
     menu_json |-> date_nights[id].menu_json, blurb |-> date_nights[id].blurb]

\* SELECT * FROM invites WHERE token = ?
SelectInviteByToken(token) ==
    LET hits == {i \in DOMAIN invites : invites[i].token = token}
    IN IF hits = {} THEN NoInvite ELSE InviteRow(CHOOSE i \in hits : TRUE)

\* SELECT * FROM invites WHERE id = ?
SelectInviteById(id) ==
    IF id \in DOMAIN invites THEN InviteRow(id) ELSE NoInvite

\* SELECT * FROM date_nights WHERE id = ?
SelectDateNight(id) ==
    IF id \in DOMAIN date_nights THEN DateNightRow(id) ELSE NoDateNight

\* a function with one more (or one replaced) entry
Put(f, k, v) == [x \in DOMAIN f \cup {k} |-> IF x = k THEN v ELSE f[x]]
\* a function restricted to the keys of keep
Restrict(f, keep) == [x \in DOMAIN f \cap keep |-> f[x]]

\* nanoid(12): an id this table has not stored before
NewId(table) == ids[table] + 1
\* nanoid(22): a token no invite holds (which one is immaterial: the least), or,
\* by collision, the token of an invite
NewTokens ==
    LET held == {invites[i].token : i \in DOMAIN invites}
        free == Tokens \ held
    IN held \cup (IF free = {} THEN {} ELSE {CHOOSE t \in free : \A u \in free : t <= u})

(***************************************************************************)
(* Requests and responses.                                                 *)
(***************************************************************************)
NoBody == [dinnerChoice |-> <<>>, activityChoice |-> <<>>, moodChoice |-> <<>>,
           notes |-> <<>>]
NoChoice == [dinner |-> <<>>, activity |-> <<>>, mood |-> <<>>, notes |-> NullText]
NoEdit == [menu_json |-> MenuDoc(JOther, JOther, JOther), blurb |-> NullText]

LocInit ==
    [kind |-> "none",          \* the route of the request
     id |-> NoId,              \* req.params.id / req.params.inviteId
     token |-> 0,              \* req.params.token
     inv |-> NoInvite,         \* inv
     body |-> NoBody,          \* req.body of POST /invite/:token
     choice |-> NoChoice,      \* dinner, activity, mood, notes
     now |-> NoTime,           \* now
     recipientEmail |-> NullText,
     todo |-> {},              \* inviteIds still to be walked by the delete loop
     edit |-> NoEdit,          \* menuJson, blurb of the menu edit
     writes |-> {}]            \* the write statements this request has run

\* kind: the route; type: redirect, render, or fault (a statement threw and nothing
\* in the handler caught it: the client gets no page of the application);
\* planner, partner: what became of the emails (none, skipped, sent, failed);
\* mailToken: the token inside the inviteUrl of an invite email;
\* plannerEmail: plannerEmail() as the submission read it;
\* token: req.params.token of the invite routes; menu, used: the locals of the
\* invite view
NoMenu == [dinner |-> <<>>, activity |-> <<>>, mood |-> <<>>]
Outcome(k, type, target, status, flash) ==
    [kind |-> k, type |-> type, target |-> target, status |-> status, flash |-> flash,
     token |-> 0, planner |-> "none", partner |-> "none", mailToken |-> 0,
     plannerEmail |-> <<>>,
     menu |-> NoMenu, used |-> FALSE]
NoOutcome == Outcome("none", "none", "", 0, "none")
Redirect(k, target, flash) == Outcome(k, "redirect", target, 302, flash)
Render(k, view, status, flash) == Outcome(k, "render", view, status, flash)
Fault(k) == Outcome(k, "fault", "", 500, "none")

\* sendEmail either returns (sent, or logged by the stub) or throws
SendResults == {"sent", "failed"}

Finish(p, outcome) ==
    /\ pc' = [pc EXCEPT ![p] = "done"]
    /\ loc' = [loc EXCEPT ![p] = LocInit]
    /\ out' = outcome

Goto(p, l, label) ==
    /\ pc' = [pc EXCEPT ![p] = label]
    /\ loc' = [loc EXCEPT ![p] = l]
    /\ out' = NoOutcome

Init ==
    /\ date_nights = << >>
    /\ invites = << >>
    /\ selections = << >>
    /\ clock = 1
    /\ ids = [date_nights |-> 0, invites |-> 0, selections |-> 0]
    /\ pc = [p \in Procs |-> "done"]
    /\ loc = [p \in Procs |-> LocInit]
    /\ out = NoOutcome

(***************************************************************************)
(* POST /admin/new                                                         *)
(***************************************************************************)
TitleInputs == {<<>>, <<" ", "Friday">>}
ThemeIdInputs == {<<"cottagecore-classic">>, <<"gothic">>}
\* req.body.menu: absent, or a document built by the urlencoded parser
NoMenuField == [present |-> FALSE, doc |-> MenuDoc(JOther, JOther, JOther)]
MenuField(doc) == [present |-> TRUE, doc |-> doc]
\* the form of the admin page sends no menu field
FormMenuInputs == {NoMenuField}
\* a crafted request may send any document: groups with an empty or an untrimmed
\* option, in another order, or a group that is no array
MenuInputs ==
    {NoMenuField,
     MenuField(MenuDoc(JArray(<< <<>>, <<"Pasta night">> >>),
                       JArray(<< <<"Board games">>, <<"Cozy movie">> >>),
                       JArray(<< <<"Romantic">> >>))),
     MenuField(MenuDoc(JArray(<< <<"Soup + fresh bread">>, <<" ", "Pasta night">> >>),
                       JArray(<< <<"Cozy movie">>, <<"Board games">> >>),
                       JArray(<< <<"Playful">>, <<"Romantic">> >>))),
     MenuField(MenuDoc(JArray(<< <<"Pasta night">> >>),
                       JArray(<< <<"Board games">> >>),
                       JOther))}

\* INSERT INTO date_nights: the primary key must be new
DateNightInsertOk(id) == id \notin DOMAIN date_nights

CreateEvent(p, menuInputs) ==
    /\ pc[p] = "done"
    /\ ids.date_nights < MaxEvents
    /\ \E titleIn \in TitleInputs, themeIn \in ThemeIdInputs, menuIn \in menuInputs :
        LET theme == getTheme(Trim(themeIn))
            title == Trim(titleIn)
            themeId == Trim(themeIn)
            menuJson == IF menuIn.present THEN menuIn.doc ELSE OptionsDoc(theme.options)
            id == NewId("date_nights")
        IN IF title = <<>>
           THEN /\ Finish(p, Redirect("create", "/admin/new", "title_missing"))
                /\ UNCHANGED <<db, clock, ids>>
           ELSE IF getTheme(themeId) = NoTheme
           THEN /\ Finish(p, Redirect("create", "/admin/new", "theme_missing"))
                /\ UNCHANGED <<db, clock, ids>>
           ELSE IF ~DateNightInsertOk(id)
           THEN /\ Finish(p, Fault("create"))
                /\ UNCHANGED <<db, clock, ids>>
           ELSE /\ date_nights' = Put(date_nights, id,
                        [title |-> title, theme_id |-> themeId, menu_json |-> menuJson,
                         blurb |-> theme.blurb])
                /\ ids' = [ids EXCEPT !.date_nights = id]
                /\ Finish(p, Redirect("create", "/admin/date-night", "none"))
                /\ UNCHANGED <<invites, selections, clock>>

(***************************************************************************)
(* POST /admin/date-night/:id/invite                                       *)
(***************************************************************************)
RecipientInputs == {<<>>, <<"partner@example.com", " ">>}

IssueInviteBegin_NoEventCheck(p) ==
    /\ pc[p] = "done"
    /\ \E id \in EventIds, recipientIn \in RecipientInputs :
        Goto(p, [LocInit EXCEPT !.kind = "issue", !.id = id,
                                !.recipientEmail = OrNull(Trim(recipientIn))],
             "issue_insert")
    /\ UNCHANGED <<db, clock, ids>>

IssueInviteBegin(p) ==
    /\ pc[p] = "done"
    /\ \E id \in EventIds, recipientIn \in RecipientInputs :
        LET dn == SelectDateNight(id)
            l == [LocInit EXCEPT !.kind = "issue", !.id = id,
                                 !.recipientEmail = OrNull(Trim(recipientIn))]
        IN IF dn.id = NoId
           THEN Finish(p, Redirect("issue", "/admin/dashboard", "none"))
           ELSE IF getTheme(dn.theme_id) = NoTheme
           THEN Finish(p, Redirect("issue", "/admin/date-night", "none"))
           ELSE Goto(p, l, "issue_insert")
    /\ UNCHANGED <<db, clock, ids>>

InviteInsertOk_TokenNotUnique(id, token) == id \notin DOMAIN invites

\* INSERT INTO invites: id is the primary key, token is UNIQUE
InviteInsertOk(id, token) ==
    /\ id \notin DOMAIN invites
    /\ \A i \in DOMAIN invites : invites[i].token # token

IssueInviteInsert(p) ==
    /\ pc[p] = "issue_insert"
    /\ ids.invites < MaxInvites
    /\ \E token \in NewTokens :
        LET inviteId == NewId("invites")
        IN IF InviteInsertOk(inviteId, token)
              THEN /\ ids' = [ids EXCEPT !.invites = inviteId]
                   /\ invites' = Put(invites, inviteId,
                          [date_night_id |-> loc[p].id, token |-> token,
                           recipient_email |-> loc[p].recipientEmail, used_at |-> NoTime])
                   /\ IF loc[p].recipientEmail # NullText
                      THEN Goto(p, [loc[p] EXCEPT !.token = token,
                                                  !.writes = @ \cup {"insert_invite"}],
                                "issue_mail")
                      ELSE Finish(p, Redirect("issue", "/admin/date-night", "invite_created"))
              ELSE /\ Finish(p, Fault("issue"))
                   /\ UNCHANGED <<invites, ids>>
    /\ UNCHANGED <<date_nights, selections, clock>>

IssueInviteMail(p) ==
    /\ pc[p] = "issue_mail"
    /\ \E sent \in SendResults :
        Finish(p, [Redirect("issue", "/admin/date-night",
                            IF sent = "sent" THEN "invite_emailed" ELSE "invite_email_failed")
                   EXCEPT !.partner = sent, !.mailToken = loc[p].token])
    /\ UNCHANGED <<db, clock, ids>>

(***************************************************************************)
(* POST /invite/:token                                                     *)
(***************************************************************************)
Body(d, a, m, n) == [dinnerChoice |-> d, activityChoice |-> a, moodChoice |-> m, notes |-> n]
\* the submissions of the lifecycle model: a choice of the theme's menu (sent with
\* stray whitespace and a note), a choice that only an edited menu offers, and a
\* choice no menu offers
Bodies ==
    {Body(<<" ", "Pasta night", " ">>, <<"Board games">>, <<"Romantic">>,
          <<" ", "See you", "\n">>),
     Body(<<"Tacos">>, <<"Board games">>, <<"Romantic">>, <<>>),
     Body(<<"Pasta night">>, <<"Board games">>, <<"Grumpy">>, <<>>)}

\* the submissions of the validation model: every triple of these values
DinnerInputs ==
    {<<>>, <<"Pasta night">>, <<" ", "Pasta night", " ">>, <<"pasta night">>,
     <<"Soup + fresh bread">>, <<"Board games">>}
ActivityInputs == {<<>>, <<"Board games">>, <<"board games">>}
MoodInputs == {<<>>, <<"Romantic">>, <<"Grumpy">>}
AllBodies ==
    {Body(d, a, m, <<>>) : d \in DinnerInputs, a \in ActivityInputs, m \in MoodInputs}

\* process.env.PLANNER_EMAIL
PlannerEmailInputs == {<<>>, <<" ">>, <<"planner@example.com">>}
\* (process.env.PLANNER_EMAIL || "").trim()
plannerEmail(env) == Trim(env)

AlreadyUsed_Never(inv) == FALSE

\* if (inv.used_at)
AlreadyUsed(inv) == inv.used_at # NoTime

MenuOf_ThemeOptions(dn) == getTheme(dn.theme_id).options

\* the menu a submission is checked against
MenuOf(dn) == safeParseMenuJson(dn.menu_json)

ValidChoice_IgnoresMood(menu, dinner, activity, mood) ==
    /\ Includes(menu.dinner, dinner)
    /\ Includes(menu.activity, activity)

\* const valid = menu.dinner.includes(dinner) && ...
ValidChoice(menu, dinner, activity, mood) ==
    /\ Includes(menu.dinner, dinner)
    /\ Includes(menu.activity, activity)
    /\ Includes(menu.mood, mood)

\* String(req.body.x || "").trim() of the four fields
ReadBody(body) ==
    [dinner |-> Trim(body.dinnerChoice), activity |-> Trim(body.activityChoice),
     mood |-> Trim(body.moodChoice), notes |-> OrNull(Trim(body.notes))]

SelectionInsertOk_NoUnique(id, invite_id) == id \notin DOMAIN selections

\* INSERT INTO selections: id is the primary key, invite_id is UNIQUE
SelectionInsertOk(id, invite_id) ==
    /\ id \notin DOMAIN selections
    /\ \A s \in DOMAIN selections : selections[s].invite_id # invite_id

UpdateUsedAt_EveryRow(id, now) ==
    [i \in DOMAIN invites |-> [invites[i] EXCEPT !.used_at = now]]

\* UPDATE invites SET used_at = ? WHERE id = ?
UpdateUsedAt(id, now) ==
    [i \in DOMAIN invites |->
        IF i = id THEN [invites[i] EXCEPT !.used_at = now] ELSE invites[i]]

SendsConfirmation_UnlessPlannerFailed(inv, planner) ==
    inv.recipient_email # NullText /\ planner # "failed"

\* if (inv.recipient_email), after the planner email was sent, failed or skipped
SendsConfirmation(inv, planner) == inv.recipient_email # NullText

PostReject_MarksUsed(p, token, flash) ==
    /\ Finish(p, [Redirect("post", "/invite", flash) EXCEPT !.token = token])
    /\ invites' = [i \in DOMAIN invites |->
                     IF invites[i].token = token
                     THEN [invites[i] EXCEPT !.used_at = clock] ELSE invites[i]]
    /\ UNCHANGED <<date_nights, selections, clock, ids>>

\* setFlash(...); return res.redirect(`/invite/${token}`): the request ends and no
\* table is written
PostReject(p, token, flash) ==
    /\ Finish(p, [Redirect("post", "/invite", flash) EXCEPT !.token = token])
    /\ UNCHANGED <<db, clock, ids>>

PostInviteBegin(p, bodies) ==
    /\ pc[p] = "done"
    /\ \E token \in Tokens, body \in bodies :
        LET inv == SelectInviteByToken(token)
        IN IF inv.id = NoId
           THEN PostReject(p, token, "invite_not_found")
           ELSE IF AlreadyUsed(inv)
           THEN PostReject(p, token, "already_used")
           ELSE /\ Goto(p, [LocInit EXCEPT !.kind = "post", !.token = token, !.inv = inv,
                                           !.body = body],
                        "post_date_night")
                /\ UNCHANGED <<db, clock, ids>>

PostInviteDateNight(p) ==
    /\ pc[p] = "post_date_night"
    /\ LET l == loc[p]
           dn == SelectDateNight(l.inv.date_night_id)
           menu == MenuOf(dn)
           c == ReadBody(l.body)
       IN IF dn.id = NoId
          THEN PostReject(p, l.token, "none")
          ELSE IF getTheme(dn.theme_id) = NoTheme
          THEN PostReject(p, l.token, "none")
          ELSE IF ~ValidChoice(menu, c.dinner, c.activity, c.mood)
          THEN PostReject(p, l.token, "invalid_selection")
          ELSE /\ clock < MaxClock
               /\ clock' = clock + 1
               /\ Goto(p, [l EXCEPT !.choice = c, !.now = clock, !.body = NoBody],
                       "post_insert")
               /\ UNCHANGED <<db, ids>>

PostInviteInsert_IgnoresConflict(p) ==
    /\ pc[p] = "post_insert"
    /\ ids.selections < MaxSelections
    /\ LET l == loc[p]
           id == NewId("selections")
       IN IF SelectionInsertOk(id, l.inv.id)
          THEN /\ selections' = Put(selections, id,
                      [invite_id |-> l.inv.id, dinner_choice |-> l.choice.dinner,
                       activity_choice |-> l.choice.activity, mood_choice |-> l.choice.mood,
                       notes |-> l.choice.notes])
               /\ ids' = [ids EXCEPT !.selections = id]
               /\ Goto(p, [l EXCEPT !.writes = @ \cup {"insert_selection"}], "post_update")
          ELSE /\ Goto(p, [l EXCEPT !.writes = @ \cup {"insert_selection"}], "post_update")
               /\ UNCHANGED <<selections, ids>>
    /\ UNCHANGED <<date_nights, invites, clock>>

PostInviteInsert(p) ==
    /\ pc[p] = "post_insert"
    /\ ids.selections < MaxSelections
    /\ LET l == loc[p]
           id == NewId("selections")
       IN IF SelectionInsertOk(id, l.inv.id)
          THEN /\ selections' = Put(selections, id,
                      [invite_id |-> l.inv.id, dinner_choice |-> l.choice.dinner,
                       activity_choice |-> l.choice.activity, mood_choice |-> l.choice.mood,
                       notes |-> l.choice.notes])
               /\ ids' = [ids EXCEPT !.selections = id]
               /\ Goto(p, [l EXCEPT !.writes = @ \cup {"insert_selection"}], "post_update")
          ELSE /\ Finish(p, [Fault("post") EXCEPT !.token = l.token])
               /\ UNCHANGED <<selections, ids>>
    /\ UNCHANGED <<date_nights, invites, clock>>

PostInviteUpdate(p) ==
    /\ pc[p] = "post_update"
    /\ invites' = UpdateUsedAt(loc[p].inv.id, loc[p].now)
    /\ Goto(p, [loc[p] EXCEPT !.writes = @ \cup {"update_invite"}], "post_notify")
    /\ UNCHANGED <<date_nights, selections, clock, ids>>

\* the planner email, the confirmation email and the thank-you view
PostInviteNotify(p) ==
    /\ pc[p] = "post_notify"
    /\ \E pe \in PlannerEmailInputs, sentPlanner \in SendResults, sentPartner \in SendResults :
        LET l == loc[p]
            planner == IF plannerEmail(pe) = <<>> THEN "skipped" ELSE sentPlanner
        IN Finish(p, [Render("post", "thanks", 200, "none")
                      EXCEPT !.token = l.token,
                             !.planner = planner,
                             !.plannerEmail = plannerEmail(pe),
                             !.partner = IF SendsConfirmation(l.inv, planner)
                                         THEN sentPartner ELSE "skipped"])
    /\ UNCHANGED <<db, clock, ids>>

(***************************************************************************)
(* GET /invite/:token                                                      *)
(***************************************************************************)
GetInviteBegin(p) ==
    /\ pc[p] = "done"
    /\ \E token \in Tokens :
        LET inv == SelectInviteByToken(token)
        IN IF inv.id = NoId
           THEN Finish(p, [Render("get", "thanks", 404, "invite_missing")
                           EXCEPT !.token = token])
           ELSE Goto(p, [LocInit EXCEPT !.kind = "get", !.token = token, !.inv = inv],
                     "get_date_night")
    /\ UNCHANGED <<db, clock, ids>>

GetInviteDateNight_NeverUsed(p) ==
    /\ pc[p] = "get_date_night"
    /\ LET dn == SelectDateNight(loc[p].inv.date_night_id)
       IN IF dn.id = NoId
          THEN Finish(p, [Render("get", "thanks", 404, "date_night_missing")
                          EXCEPT !.token = loc[p].token])
          ELSE Finish(p, [Render("get", "invite", 200, "none")
                          EXCEPT !.token = loc[p].token,
                                 !.menu = safeParseMenuJson(dn.menu_json)])
    /\ UNCHANGED <<db, clock, ids>>

GetInviteDateNight(p) ==
    /\ pc[p] = "get_date_night"
    /\ LET dn == SelectDateNight(loc[p].inv.date_night_id)
       IN IF dn.id = NoId
          THEN Finish(p, [Render("get", "thanks", 404, "date_night_missing")
                          EXCEPT !.token = loc[p].token])
          ELSE IF getTheme(dn.theme_id) = NoTheme
          THEN Finish(p, [Render("get", "thanks", 500, "theme_unknown")
                          EXCEPT !.token = loc[p].token])
          ELSE Finish(p, [Render("get", "invite", 200, "none")
                          EXCEPT !.token = loc[p].token,
                                 !.menu = safeParseMenuJson(dn.menu_json),
                                 !.used = (loc[p].inv.used_at # NoTime)])
    /\ UNCHANGED <<db, clock, ids>>

(***************************************************************************)
(* POST /admin/invite/:inviteId/resend                                     *)
(***************************************************************************)
ResendBegin(p) ==
    /\ pc[p] = "done"
    /\ \E inviteId \in InviteIds :
        LET inv == SelectInviteById(inviteId)
        IN IF inv.id = NoId \/ inv.recipient_email = NullText
           THEN Finish(p, Redirect("resend", "/admin/dashboard", "resend_invite_missing"))
           ELSE Goto(p, [LocInit EXCEPT !.kind = "resend", !.id = inviteId, !.inv = inv],
                     "resend_date_night")
    /\ UNCHANGED <<db, clock, ids>>

ResendDateNight_ReopensInvite(p) ==
    /\ pc[p] = "resend_date_night"
    /\ \E sent \in SendResults :
        Finish(p, [Redirect("resend", "/admin/date-night",
                            IF sent = "sent" THEN "resent" ELSE "resend_failed")
                   EXCEPT !.partner = sent, !.mailToken = loc[p].inv.token])
    /\ invites' = UpdateUsedAt(loc[p].id, NoTime)
    /\ UNCHANGED <<date_nights, selections, clock, ids>>

ResendDateNight(p) ==
    /\ pc[p] = "resend_date_night"
    /\ \E sent \in SendResults :
        LET dn == SelectDateNight(loc[p].inv.date_night_id)
        IN IF dn.id = NoId
           THEN Finish(p, Redirect("resend", "/admin/dashboard", "none"))
           ELSE IF getTheme(dn.theme_id) = NoTheme
           THEN Finish(p, Redirect("resend", "/admin/date-night", "none"))
           ELSE Finish(p, [Redirect("resend", "/admin/date-night",
                                    IF sent = "sent" THEN "resent" ELSE "resend_failed")
                           EXCEPT !.partner = sent, !.mailToken = loc[p].inv.token])
    /\ UNCHANGED <<db, clock, ids>>

(***************************************************************************)
(* POST /admin/date-night/:id/menu                                         *)
(***************************************************************************)
EditForm(d, a, m, b) == [dinner |-> d, activity |-> a, mood |-> m, blurb |-> b]
EditInputs ==
    {EditForm(<<"Soup + fresh bread", "\n", " ", "Tacos", " ", "\n", "\n">>,
              <<"Board games">>, <<"Romantic">>, <<" ", "Quiet night">>),
     EditForm(<<" ", "\n">>, <<"Board games">>, <<"Romantic">>, <<>>)}

EditMenuBegin(p) ==
    /\ pc[p] = "done"
    /\ \E id \in EventIds, form \in EditInputs :
        LET dn == SelectDateNight(id)
            dinner == parseLines(form.dinner)
            activity == parseLines(form.activity)
            mood == parseLines(form.mood)
            blurb == OrNull(Trim(form.blurb))
        IN IF dn.id = NoId
           THEN Finish(p, Redirect("edit", "/admin/dashboard", "none"))
           ELSE IF Len(dinner) = 0 \/ Len(activity) = 0 \/ Len(mood) = 0
           THEN Finish(p, Redirect("edit", "/admin/date-night/menu", "menu_incomplete"))
           ELSE Goto(p, [LocInit EXCEPT !.kind = "edit", !.id = id,
                           !.edit = [menu_json |-> MenuDoc(JArray(dinner), JArray(activity),
                                                           JArray(mood)),
                                     blurb |-> blurb]],
                     "edit_update")
    /\ UNCHANGED <<db, clock, ids>>

UpdateMenu_KeepsBlurb(id, menuJson, blurb) ==
    [d \in DOMAIN date_nights |->
        IF d = id THEN [date_nights[d] EXCEPT !.menu_json = menuJson] ELSE date_nights[d]]

\* UPDATE date_nights SET menu_json = ?, blurb = ? WHERE id = ?
UpdateMenu(id, menuJson, blurb) ==
    [d \in DOMAIN date_nights |->
        IF d = id THEN [date_nights[d] EXCEPT !.menu_json = menuJson, !.blurb = blurb]
        ELSE date_nights[d]]

EditMenuUpdate_PrunesSelections(p) ==
    /\ pc[p] = "edit_update"
    /\ date_nights' = UpdateMenu(loc[p].id, loc[p].edit.menu_json, loc[p].edit.blurb)
    /\ selections' = Restrict(selections,
           {s \in DOMAIN selections :
               Includes(loc[p].edit.menu_json.dinner.items, selections[s].dinner_choice)})
    /\ Finish(p, Redirect("edit", "/admin/date-night", "menu_saved"))
    /\ UNCHANGED <<invites, clock, ids>>

EditMenuUpdate(p) ==
    /\ pc[p] = "edit_update"
    /\ date_nights' = UpdateMenu(loc[p].id, loc[p].edit.menu_json, loc[p].edit.blurb)
    /\ Finish(p, Redirect("edit", "/admin/date-night", "menu_saved"))
    /\ UNCHANGED <<invites, selections, clock, ids>>

(***************************************************************************)
(* POST /admin/date-night/:id/delete                                       *)
(***************************************************************************)
\* SELECT id FROM invites WHERE date_night_id = ?
InviteIdsOf(id) == {i \in DOMAIN invites : invites[i].date_night_id = id}

DeleteBegin(p) ==
    /\ pc[p] = "done"
    /\ \E id \in EventIds :
        Goto(p, [LocInit EXCEPT !.kind = "delete", !.id = id, !.todo = InviteIdsOf(id)],
             "delete_selections")
    /\ UNCHANGED <<db, clock, ids>>

\* for (const inv of inviteIds) delSel.run(inv.id): one turn of the loop; the rows
\* come back in insertion order
DeleteSelections(p) ==
    /\ pc[p] = "delete_selections"
    /\ loc[p].todo # {}
    /\ LET inv == CHOOSE i \in loc[p].todo : \A j \in loc[p].todo : i <= j
       IN /\ selections' = Restrict(selections,
                 {s \in DOMAIN selections : selections[s].invite_id # inv})
          /\ Goto(p, [loc[p] EXCEPT !.todo = @ \ {inv},
                                    !.writes = @ \cup {"delete_selections"}],
                  "delete_selections")
    /\ UNCHANGED <<date_nights, invites, clock, ids>>

DeleteInvites_EveryRow(p) ==
    /\ pc[p] = "delete_selections"
    /\ loc[p].todo = {}
    /\ invites' = << >>
    /\ Goto(p, [loc[p] EXCEPT !.writes = @ \cup {"delete_invites"}], "delete_date_night")
    /\ UNCHANGED <<date_nights, selections, clock, ids>>

\* DELETE FROM invites WHERE date_night_id = ?
DeleteInvites(p) ==
    /\ pc[p] = "delete_selections"
    /\ loc[p].todo = {}
    /\ invites' = Restrict(invites,
           {i \in DOMAIN invites : invites[i].date_night_id # loc[p].id})
    /\ Goto(p, [loc[p] EXCEPT !.writes = @ \cup {"delete_invites"}], "delete_date_night")
    /\ UNCHANGED <<date_nights, selections, clock, ids>>

\* DELETE FROM date_nights WHERE id = ?
DeleteDateNight(p) ==
    /\ pc[p] = "delete_date_night"
    /\ date_nights' = Restrict(date_nights, DOMAIN date_nights \ {loc[p].id})
    /\ Finish(p, Redirect("delete", "/admin/dashboard", "deleted"))
    /\ UNCHANGED <<invites, selections, clock, ids>>

(***************************************************************************)
(* The process dies between the two writes of a submission: the request    *)
(* gets no response.  (A process that dies at another statement of a       *)
(* submission leaves the store as a failed or a finished submission does.) *)
(***************************************************************************)
Crash(p) ==
    /\ pc[p] = "post_update"
    /\ Finish(p, NoOutcome)
    /\ UNCHANGED <<db, clock, ids>>

Next ==
    \E p \in Procs :
        \/ CreateEvent(p, FormMenuInputs)
        \/ IssueInviteBegin(p)
        \/ IssueInviteInsert(p)
        \/ IssueInviteMail(p)
        \/ ResendBegin(p)
        \/ ResendDateNight(p)
        \/ GetInviteBegin(p)
        \/ GetInviteDateNight(p)
        \/ PostInviteBegin(p, Bodies)
        \/ PostInviteDateNight(p)
        \/ PostInviteInsert(p)
        \/ PostInviteUpdate(p)
        \/ PostInviteNotify(p)
        \/ EditMenuBegin(p)
        \/ EditMenuUpdate(p)
        \/ DeleteBegin(p)
        \/ DeleteSelections(p)
        \/ DeleteInvites(p)
        \/ DeleteDateNight(p)
        \/ Crash(p)

Spec == Init /\ [][Next]_vars

(***************************************************************************)
(* Submissions alone: one date night, whose menu is any document that      *)
(* POST /admin/new can store, with one pending invite, and the processes   *)
(* handle submissions of every body of AllBodies.                          *)
(***************************************************************************)
StoredMenus ==
    {IF m.present THEN m.doc ELSE OptionsDoc(THEMES[1].options) : m \in MenuInputs}

InitSubmit ==
    /\ \E doc \in StoredMenus :
          date_nights = (1 :> [title |-> <<"Friday">>, theme_id |-> THEMES[1].id,
                               menu_json |-> doc, blurb |-> THEMES[1].blurb])
    /\ \E recipientIn \in RecipientInputs :
          invites = (1 :> [date_night_id |-> 1, token |-> 1,
                           recipient_email |-> OrNull(Trim(recipientIn)),
                           used_at |-> NoTime])
    /\ selections = << >>
    /\ clock = 1
    /\ ids = [date_nights |-> 1, invites |-> 1, selections |-> 0]
    /\ pc = [p \in Procs |-> "done"]
    /\ loc = [p \in Procs |-> LocInit]
    /\ out = NoOutcome

NextSubmit ==
    \E p \in Procs :
        \/ PostInviteBegin(p, AllBodies)
        \/ PostInviteDateNight(p)
        \/ PostInviteInsert(p)
        \/ PostInviteUpdate(p)
        \/ PostInviteNotify(p)

SpecSubmit == InitSubmit /\ [][NextSubmit]_vars

(***************************************************************************)
(* Menus: date nights are created with any menu field of MenuInputs, their *)
(* menus are edited and invites are issued against them.                   *)
(***************************************************************************)
NextMenus ==
    \E p \in Procs :
        \/ CreateEvent(p, MenuInputs)
        \/ IssueInviteBegin(p)
        \/ IssueInviteInsert(p)
        \/ IssueInviteMail(p)
        \/ EditMenuBegin(p)
        \/ EditMenuUpdate(p)

SpecMenus == Init /\ [][NextMenus]_vars

(***************************************************************************)
(* One request at a time: two date nights, two pending invites bound to    *)
(* either of them, and a single process at a time handles a submission or  *)
(* a deletion of date night 1 from its first statement to its last.        *)
(***************************************************************************)
InitSerial ==
    /\ date_nights = [d \in {1, 2} |->
                         [title |-> <<"Friday">>, theme_id |-> THEMES[1].id,
                          menu_json |-> OptionsDoc(THEMES[1].options),
                          blurb |-> THEMES[1].blurb]]
    /\ \E e1 \in {1, 2}, e2 \in {1, 2}, recipientIn \in RecipientInputs :
          invites = [i \in {1, 2} |->
                        [date_night_id |-> IF i = 1 THEN e1 ELSE e2, token |-> i,
                         recipient_email |-> OrNull(Trim(recipientIn)),
                         used_at |-> NoTime]]
    /\ selections = << >>
    /\ clock = 1
    /\ ids = [date_nights |-> 2, invites |-> 2, selections |-> 0]
    /\ pc = [p \in Procs |-> "done"]
    /\ loc = [p \in Procs |-> LocInit]
    /\ out = NoOutcome

\* no other process is inside a request
Alone(p) == \A q \in Procs \ {p} : pc[q] = "done"

NextSerial ==
    \E p \in Procs :
        \/ Alone(p) /\ PostInviteBegin(p, Bodies)
        \/ Alone(p) /\ PostInviteDateNight(p)
        \/ Alone(p) /\ PostInviteInsert(p)
        \/ Alone(p) /\ PostInviteUpdate(p)
        \/ Alone(p) /\ PostInviteNotify(p)
        \/ Alone(p) /\ DeleteBegin(p)
        \/ Alone(p) /\ DeleteSelections(p)
        \/ Alone(p) /\ DeleteInvites(p)
        \/ Alone(p) /\ DeleteDateNight(p)

SpecSerial == InitSerial /\ [][NextSerial]_vars

(***************************************************************************)
(* Properties.                                                             *)
(***************************************************************************)
SelectionsOf(i) == {s \in DOMAIN selections : selections[s].invite_id = i}
IsUsed(i) == invites[i].used_at # NoTime
AlreadyUsedOutcome(token) ==
    [Redirect("post", "/invite", "already_used") EXCEPT !.token = token]

\* C1: in every reachable state every invite has at most one selection row, whatever
\* the interleaving of the requests of the processes.
C1_AtMostOneSelectionPerInvite ==
    \A i \in InviteIds : Cardinality(SelectionsOf(i)) <= 1

\* a second INSERT for an invite that has its selection was just refused
C1_Witness ==
    /\ out.kind = "post" /\ out.type = "fault"
    /\ \E i \in DOMAIN invites : Cardinality(SelectionsOf(i)) = 1

\* C2: in every state another request can observe, an invite's used_at is present
\* if and only if a selection exists for the invite.
C2_UsedIffSelection ==
    \A i \in DOMAIN invites : IsUsed(i) <=> SelectionsOf(i) # {}

\* C3: a submission that read its invite as pending and comes to its INSERT when a
\* concurrent submission has recorded its selection ends in the already-used
\* redirect (and never in a storage fault or without a response).
C3_LoserGetsAlreadyUsed ==
    [][\A p \in Procs :
          (/\ pc[p] = "post_insert"
           /\ SelectionsOf(loc[p].inv.id) # {}
           /\ pc'[p] # pc[p])
          => out' = AlreadyUsedOutcome(loc[p].token)]_vars

\* C4: as long as an invite exists, a used_at that is present never changes again,
\* and used_at becomes present only by the UPDATE of a submission that passed
\* validation and has inserted its selection.
C4_UsedIsForever ==
    [][\A i \in DOMAIN invites \cap DOMAIN invites' :
          /\ IsUsed(i) => invites'[i].used_at = invites[i].used_at
          /\ (~IsUsed(i) /\ invites'[i].used_at # NoTime) =>
                \E p \in Procs :
                    /\ pc[p] = "post_update" /\ pc'[p] = "post_notify"
                    /\ loc[p].inv.id = i
                    /\ loc[p].choice # NoChoice
                    /\ invites'[i].used_at = loc[p].now]_vars

\* C5: a submission for an invite whose used_at is present goes no further than the
\* check of used_at, whatever its body: it ends in the already-used redirect and
\* leaves every table as it was.
C5_UsedInviteIsRefused ==
    [][/\ \A p \in Procs :
             (pc[p] = "done" /\ pc'[p] = "post_date_night")
             => SelectInviteByToken(loc'[p].token).used_at = NoTime
       /\ (/\ out'.kind = "post"
           /\ pc' = pc
           /\ SelectInviteByToken(out'.token).used_at # NoTime)
          => (out' = AlreadyUsedOutcome(out'.token) /\ UNCHANGED db)]_vars

\* a submission for a used invite was just answered
C5_Witness ==
    /\ out.kind = "post" /\ out.flash = "already_used"
    /\ \E i \in DOMAIN invites : IsUsed(i) /\ invites[i].token = out.token

\* the options of a group of a stored menu document
GroupOf(j) == IF j.isArray THEN {j.items[k] : k \in 1..Len(j.items)} ELSE {}
\* the submitted values after the normalisation of the input
Submitted(body) ==
    [dinner |-> Trim(body.dinnerChoice), activity |-> Trim(body.activityChoice),
     mood |-> Trim(body.moodChoice)]
AllOffered(doc, c) ==
    /\ c.dinner \in GroupOf(doc.dinner)
    /\ c.activity \in GroupOf(doc.activity)
    /\ c.mood \in GroupOf(doc.mood)
InvalidOutcome(token) ==
    [Redirect("post", "/invite", "invalid_selection") EXCEPT !.token = token]
\* process p takes the step that reads the date night of its submission, and finds it
ChecksChoice(p) ==
    /\ pc[p] = "post_date_night" /\ pc'[p] # pc[p]
    /\ loc[p].inv.date_night_id \in DOMAIN date_nights

\* C6: a submission to a pending invite whose date night exists is accepted if and
\* only if each of its three (normalised) values is an exact member of the
\* corresponding group of the menu stored at that moment, wherever in the group it
\* stands; an empty value passes only when the group holds the empty string.
C6_AcceptedIffOffered ==
    [][\A p \in Procs :
          ChecksChoice(p) =>
            LET doc == date_nights[loc[p].inv.date_night_id].menu_json
                c == Submitted(loc[p].body)
            IN /\ (pc'[p] = "post_insert") <=> AllOffered(doc, c)
               /\ ~AllOffered(doc, c) => out' = InvalidOutcome(loc[p].token)]_vars

\* an empty dinner value was accepted: the dinner group holds the empty string
C6_Witness ==
    \E p \in Procs :
        /\ pc[p] = "post_insert"
        /\ loc[p].choice.dinner = <<>>
        /\ <<>> \in GroupOf(date_nights[1].menu_json.dinner)

\* C7: a submission is checked against the menu as the last completed edit left it:
\* a value of the theme's menu that the edit removed is refused as an invalid
\* selection, and a value that only the edit added is accepted.
C7_EditedMenuDecides ==
    [][\A p \in Procs :
          ChecksChoice(p) =>
            LET doc == date_nights[loc[p].inv.date_night_id].menu_json
                theme == OptionsDoc(THEMES[1].options)
                c == Submitted(loc[p].body)
            IN /\ (AllOffered(theme, c) /\ ~AllOffered(doc, c))
                    => out' = InvalidOutcome(loc[p].token)
               /\ (~AllOffered(theme, c) /\ AllOffered(doc, c))
                    => pc'[p] = "post_insert"]_vars

\* a value that only the edit added was accepted
C7_Witness ==
    \E p \in Procs :
        /\ pc[p] = "post_insert"
        /\ loc[p].choice.dinner = <<"Tacos">>
        /\ <<"Tacos">> \notin GroupOf(OptionsDoc(THEMES[1].options).dinner)

\* C8: a submission that ends in a redirect (invite not found, event missing,
\* already used, invalid selection) has written nothing: the step that ends it
\* leaves the three tables as they are and the request ran no write before.
C8_FailedSubmissionWritesNothing ==
    [][(out'.kind = "post" /\ out'.type = "redirect") =>
          /\ UNCHANGED db
          /\ \A p \in Procs : pc'[p] # pc[p] => loc[p].writes = {}]_vars

\* a submission to a pending invite was just refused as an invalid selection
C8_Witness ==
    /\ out.kind = "post" /\ out.flash = "invalid_selection"
    /\ \E i \in DOMAIN invites : ~IsUsed(i) /\ invites[i].token = out.token

\* C9: every submission that does not end in the thank-you view ends in a redirect
\* to the invite page with one of the three messages set.
C9_FailureCarriesMessage ==
    out.kind = "post" =>
        \/ out.type = "render" /\ out.target = "thanks"
        \/ /\ out.type = "redirect" /\ out.target = "/invite"
           /\ out.flash \in {"invite_not_found", "already_used", "invalid_selection"}

\* C10: once the selection is recorded, the request ends in the thank-you view and
\* writes no table, whatever becomes of the emails; the planner email is attempted
\* exactly when a planner address is configured, and the confirmation is attempted
\* exactly when the invite has a recipient, also after a failed planner email.
C10_NotificationsAreIndependent ==
    [][\A p \in Procs :
          (pc[p] = "post_notify" /\ pc'[p] # pc[p]) =>
            /\ out'.type = "render" /\ out'.target = "thanks" /\ out'.status = 200
            /\ UNCHANGED db
            /\ (out'.plannerEmail = <<>>) <=> (out'.planner = "skipped")
            /\ out'.planner \in SendResults \cup {"skipped"}
            /\ IF loc[p].inv.recipient_email # NullText
               THEN out'.partner \in SendResults
               ELSE out'.partner = "skipped"]_vars

\* the planner email failed and the confirmation was sent all the same
C10_Witness ==
    /\ out.kind = "post" /\ out.type = "render"
    /\ out.planner = "failed" /\ out.partner = "sent"

\* C11: no step of a resend writes a table, whether the invite is pending or used
\* and whether the email is sent or fails, and the link of the email carries the
\* token the invite had when the resend read it, which is the token it still has.
C11_ResendWritesNothing ==
    [][\A p \in Procs :
          /\ (pc[p] = "done" /\ pc'[p] = "resend_date_night") => UNCHANGED db
          /\ (pc[p] = "resend_date_night" /\ pc'[p] # pc[p]) =>
                /\ UNCHANGED db
                /\ out'.kind = "resend"
                /\ out'.partner \in SendResults =>
                      /\ out'.mailToken = loc[p].inv.token
                      /\ loc[p].id \in DOMAIN invites =>
                            invites'[loc[p].id].token = out'.mailToken]_vars

\* the email of a resend for a used invite failed
C11_Witness ==
    /\ out.kind = "resend" /\ out.partner = "failed"
    /\ \E i \in DOMAIN invites : IsUsed(i) /\ invites[i].token = out.mailToken

\* every selection refers to an invite and every invite to a date night
NoDanglingRows ==
    /\ \A i \in DOMAIN invites : invites[i].date_night_id \in DOMAIN date_nights
    /\ \A s \in DOMAIN selections : selections[s].invite_id \in DOMAIN invites
\* the rows that do not belong to date night e are the same after the step
OtherRowsKept(e) ==
    /\ \A d \in DOMAIN date_nights \ {e} :
          d \in DOMAIN date_nights' /\ date_nights'[d] = date_nights[d]
    /\ \A i \in DOMAIN invites :
          invites[i].date_night_id # e => i \in DOMAIN invites' /\ invites'[i] = invites[i]
    /\ \A s \in DOMAIN selections :
          (\E i \in DOMAIN invites : i = selections[s].invite_id
                                     /\ invites[i].date_night_id # e)
             => s \in DOMAIN selections' /\ selections'[s] = selections[s]

\* C12: when a deletion of date night E runs with no other request in between, no
\* statement of it touches a row of another date night, and when it completes the
\* date night E, its invites and their selections are gone: no invite refers to E,
\* and (as no row dangled before) no selection is left without its invite.
C12_DeleteRemovesTheEventOnly ==
    [][\A p \in Procs :
          (/\ pc[p] \in {"delete_selections", "delete_date_night"}
           /\ (pc'[p] # pc[p] \/ loc'[p] # loc[p])) =>
            /\ OtherRowsKept(loc[p].id)
            /\ out'.kind = "delete" =>
                  /\ loc[p].id \notin DOMAIN date_nights'
                  /\ \A i \in DOMAIN invites' : invites'[i].date_night_id # loc[p].id
                  /\ \A s \in DOMAIN selections' :
                        selections'[s].invite_id \in DOMAIN invites']_vars

\* a deletion has completed that removed a used invite with its selection and kept
\* the used invite and the selection of the other date night
C12_Witness ==
    /\ out.kind = "delete"
    /\ ids.selections = 2 /\ Cardinality(DOMAIN selections) = 1
    /\ Cardinality(DOMAIN invites) = 1 /\ DOMAIN date_nights = {2}

\* C13: an issue goes on to its INSERT only when the date night it names exists, and
\* otherwise ends with no table written; the INSERT, unless the store refuses it,
\* adds exactly one invite, bound to that date night, pending and with no selection,
\* and changes no other row; the email step writes nothing.
C13_IssueAddsOnePendingInvite ==
    [][\A p \in Procs :
          /\ (pc[p] = "done" /\ pc'[p] = "issue_insert") =>
                loc'[p].id \in DOMAIN date_nights /\ UNCHANGED db
          /\ (pc' = pc /\ out'.kind = "issue") => UNCHANGED db
          /\ (pc[p] = "issue_insert" /\ pc'[p] # pc[p]) =>
                IF out'.type = "fault"
                THEN UNCHANGED db
                ELSE /\ \E n \in DOMAIN invites' \ DOMAIN invites :
                          /\ DOMAIN invites' = DOMAIN invites \cup {n}
                          /\ invites'[n].date_night_id = loc[p].id
                          /\ invites'[n].used_at = NoTime
                          /\ invites'[n].recipient_email = loc[p].recipientEmail
                          /\ \A s \in DOMAIN selections' : selections'[s].invite_id # n
                     /\ \A i \in DOMAIN invites : invites'[i] = invites[i]
                     /\ UNCHANGED <<date_nights, selections>>
          /\ (pc[p] = "issue_mail" /\ pc'[p] # pc[p]) => UNCHANGED db]_vars

\* a second invite was just added next to a used one
C13_Witness ==
    /\ out.kind = "issue" /\ out.flash = "invite_created"
    /\ Cardinality(DOMAIN invites) = 2
    /\ \E i \in DOMAIN invites : IsUsed(i)

TokensAreUnique ==
    \A i \in DOMAIN invites, j \in DOMAIN invites :
        invites[i].token = invites[j].token => i = j

\* C14: in every state no two invites hold the same token, and an issue whose
\* generated token is held by an invite fails at its INSERT and leaves every
\* invite as it was.
C14_TokenCollisionIsRefused ==
    /\ []TokensAreUnique
    /\ [][\A p \in Procs :
             (pc[p] = "issue_insert" /\ pc'[p] # pc[p]) =>
                /\ (\A i \in DOMAIN invites : i \in DOMAIN invites' /\ invites'[i] = invites[i])
                /\ out'.type = "fault" => UNCHANGED db]_vars

\* an issue has just failed on its INSERT while a used invite holds a token
C14_Witness ==
    /\ out.kind = "issue" /\ out.type = "fault"
    /\ \E i \in DOMAIN invites : IsUsed(i)

\* the three groups of the menu of date night d, as the application reads them,
\* hold an option each
MenuIsComplete(d) ==
    LET menu == safeParseMenuJson(date_nights[d].menu_json)
    IN Len(menu.dinner) > 0 /\ Len(menu.activity) > 0 /\ Len(menu.mood) > 0

\* C15: every date night that invites can be issued against (it exists and its
\* theme is known) or were issued against has a stored menu whose three groups
\* hold at least one option each.
C15_IssuableMenusAreComplete ==
    /\ \A d \in DOMAIN date_nights :
          getTheme(date_nights[d].theme_id) # NoTheme => MenuIsComplete(d)
    /\ \A i \in DOMAIN invites :
          invites[i].date_night_id \in DOMAIN date_nights
             => MenuIsComplete(invites[i].date_night_id)

\* a group as the menu form may store it: a list of at least one option, each
\* option one line with no whitespace around it and not empty
IsCleanGroup(j) ==
    /\ j.isArray /\ Len(j.items) > 0
    /\ \A k \in 1..Len(j.items) :
          LET o == j.items[k]
          IN /\ o # <<>> /\ Trim(o) = o
             /\ \A n \in 1..Len(o) : o[n] # "\n"

\* C16: a menu edit reaches its UPDATE only for a date night that exists and with
\* three groups that are not empty; the UPDATE replaces the menu and the blurb of
\* that date night by the submitted ones and leaves its other columns and every
\* other date night alone; a rejected edit writes nothing; no step of an edit
\* changes an invite or a selection.
C16_EditReplacesMenuOrNothing ==
    [][/\ (pc' = pc /\ out'.kind = "edit") => UNCHANGED db
       /\ \A p \in Procs :
          /\ (pc[p] = "done" /\ pc'[p] = "edit_update") =>
                /\ UNCHANGED db
                /\ loc'[p].id \in DOMAIN date_nights
                /\ IsCleanGroup(loc'[p].edit.menu_json.dinner)
                /\ IsCleanGroup(loc'[p].edit.menu_json.activity)
                /\ IsCleanGroup(loc'[p].edit.menu_json.mood)
          /\ (pc[p] = "edit_update" /\ pc'[p] # pc[p]) =>
                /\ UNCHANGED <<invites, selections>>
                /\ DOMAIN date_nights' = DOMAIN date_nights
                /\ \A d \in DOMAIN date_nights :
                      date_nights'[d] =
                         IF d = loc[p].id
                         THEN [date_nights[d] EXCEPT !.menu_json = loc[p].edit.menu_json,
                                                     !.blurb = loc[p].edit.blurb]
                         ELSE date_nights[d]]_vars

\* the form with blank lines and padded options was saved as two dinner options and
\* a trimmed blurb, while an invite is used
C16_Witness ==
    /\ out.kind = "edit" /\ out.flash = "menu_saved"
    /\ 1 \in DOMAIN date_nights
    /\ date_nights[1].menu_json =
          MenuDoc(JArray(<< <<"Soup + fresh bread">>, <<"Tacos">> >>),
                  JArray(<< <<"Board games">> >>), JArray(<< <<"Romantic">> >>))
    /\ date_nights[1].blurb = <<"Quiet night">>
    /\ \E i \in DOMAIN invites : IsUsed(i)

\* the options of a group of a stored menu document, in their order
OptionsOf(j) == IF j.isArray THEN j.items ELSE <<>>

\* C17: no step of a GET of an invite writes a table.  It answers 404 with the error
\* view exactly when no invite has the token, or when the date night of the invite
\* it found does not exist; 500 when the theme is unknown; otherwise the invite
\* view with the menu stored at that moment and the used flag of the invite row it
\* read, which is the invite's used state whenever that row is still the same.
C17_GetShowsTheStoredState ==
    [][/\ (pc' = pc /\ out'.kind = "get") =>
             /\ UNCHANGED db
             /\ out'.type = "render" /\ out'.target = "thanks" /\ out'.status = 404
             /\ \A i \in DOMAIN invites : invites[i].token # out'.token
       /\ \A p \in Procs :
          /\ (pc[p] = "done" /\ pc'[p] = "get_date_night") =>
                /\ UNCHANGED db
                /\ \E i \in DOMAIN invites :
                      invites[i].token = loc'[p].token /\ loc'[p].inv = InviteRow(i)
          /\ (pc[p] = "get_date_night" /\ pc'[p] # pc[p]) =>
                LET e == loc[p].inv.date_night_id
                IN /\ UNCHANGED db
                   /\ out'.kind = "get" /\ out'.type = "render"
                   /\ out'.token = loc[p].token
                   /\ IF e \notin DOMAIN date_nights
                      THEN out'.target = "thanks" /\ out'.status = 404
                      ELSE IF \A t \in 1..Len(THEMES) :
                                 THEMES[t].id # date_nights[e].theme_id
                      THEN out'.target = "thanks" /\ out'.status = 500
                      ELSE /\ out'.target = "invite" /\ out'.status = 200
                           /\ out'.menu =
                                 [dinner |-> OptionsOf(date_nights[e].menu_json.dinner),
                                  activity |-> OptionsOf(date_nights[e].menu_json.activity),
                                  mood |-> OptionsOf(date_nights[e].menu_json.mood)]
                           /\ out'.used = (loc[p].inv.used_at # NoTime)
                           /\ (loc[p].inv.id \in DOMAIN invites
                               /\ InviteRow(loc[p].inv.id) = loc[p].inv)
                                 => (out'.used <=> IsUsed(loc[p].inv.id))]_vars

\* the invite view of a used invite shows the edited menu
C17_Witness ==
    /\ out.kind = "get" /\ out.target = "invite" /\ out.used
    /\ out.menu.dinner = << <<"Soup + fresh bread">>, <<"Tacos">> >>

\* C18: at the step that commits the selection of a submission, the invite is still
\* pending and the three values that are stored are offered by the menu of the
\* date night as it is stored at that moment.
C18_WriteRechecksEligibility ==
    [][\A p \in Procs :
          (pc[p] = "post_insert" /\ pc'[p] = "post_update") =>
             LET e == loc[p].inv.date_night_id
             IN /\ loc[p].inv.id \in DOMAIN invites
                /\ ~IsUsed(loc[p].inv.id)
                /\ e \in DOMAIN date_nights
                /\ AllOffered(date_nights[e].menu_json, loc[p].choice)]_vars

\* C19: whenever no request is in flight, every invite refers to a date night that
\* exists and every selection to an invite that exists.
C19_NoDanglingRowsAtRest ==
    (\A p \in Procs : pc[p] = "done") => NoDanglingRows

\* C20: a selection row never changes, and the only step that removes one is the
\* DELETE FROM selections of a deletion, for an invite the deletion found for its
\* date night; a menu edit that removes the chosen value leaves the row as it was.
C20_SelectionsAreImmutable ==
    [][\A s \in DOMAIN selections :
          IF s \in DOMAIN selections'
          THEN selections'[s] = selections[s]
          ELSE \E p \in Procs :
                  /\ pc[p] = "delete_selections"
                  /\ selections[s].invite_id \in loc[p].todo
                  /\ selections[s].invite_id \in DOMAIN invites =>
                        invites[selections[s].invite_id].date_night_id = loc[p].id]_vars

\* a menu edit has just removed the dinner that a selection holds
C20_Witness ==
    /\ out.kind = "edit" /\ out.flash = "menu_saved"
    /\ \E s \in DOMAIN selections :
          /\ selections[s].dinner_choice = <<"Pasta night">>
          /\ selections[s].invite_id \in DOMAIN invites
          /\ LET e == invites[selections[s].invite_id].date_night_id
             IN /\ e \in DOMAIN date_nights
                /\ selections[s].dinner_choice \notin GroupOf(date_nights[e].menu_json.dinner)

\* the selection row that holds the choice c for invite i
SelectionRow(i, c) ==
    [invite_id |-> i, dinner_choice |-> c.dinner, activity_choice |-> c.activity,
     mood_choice |-> c.mood, notes |-> c.notes]
\* the submission of process p answers with the thank-you view
Thanks(p) ==
    /\ pc[p] = "post_notify" /\ pc'[p] = "done"
    /\ out'.kind = "post" /\ out'.target = "thanks"

\* C21 as stated: when a submission answers with the thank-you view, a selection
\* with exactly its trimmed values and notes exists for the invite of its token and
\* the invite's used timestamp is present.
C21_ThanksMeansSelectionInPlace ==
    [][(out'.kind = "post" /\ out'.target = "thanks") =>
          \E p \in Procs :
             /\ Thanks(p)
             /\ loc[p].inv.id \in DOMAIN invites
             /\ invites[loc[p].inv.id].token = loc[p].token
             /\ IsUsed(loc[p].inv.id)
             /\ \E s \in DOMAIN selections :
                   selections[s] = SelectionRow(loc[p].inv.id, loc[p].choice)]_vars

\* C21 as amended: a submission answers with the thank-you view only after it has
\* itself inserted a selection with exactly its trimmed values and notes for the
\* invite of its token and has then run the update of the used timestamp, and the
\* invite, if it still exists when the answer is produced, is used.
C21_ThanksOnlyAfterRecording ==
    [][/\ \A p \in Procs :
          /\ (pc[p] = "post_date_night" /\ pc'[p] = "post_insert") =>
                /\ loc'[p].choice.dinner = Trim(loc[p].body.dinnerChoice)
                /\ loc'[p].choice.activity = Trim(loc[p].body.activityChoice)
                /\ loc'[p].choice.mood = Trim(loc[p].body.moodChoice)
                /\ loc'[p].choice.notes =
                      (IF Trim(loc[p].body.notes) = <<>> THEN NullText
                       ELSE Trim(loc[p].body.notes))
          /\ (pc[p] = "post_insert" /\ pc'[p] = "post_update") =>
                /\ loc[p].inv.token = loc[p].token
                /\ \E s \in DOMAIN selections' \ DOMAIN selections :
                      selections'[s] = SelectionRow(loc[p].inv.id, loc[p].choice)
          /\ (pc[p] = "post_update" /\ pc'[p] = "post_notify") =>
                (loc[p].inv.id \in DOMAIN invites' =>
                    invites'[loc[p].inv.id].used_at # NoTime)
          /\ (pc[p] \in {"post_insert", "post_update", "post_notify"}
              /\ pc'[p] \in {"post_update", "post_notify", "done"}) =>
                (loc'[p] = LocInit \/ (loc'[p].choice = loc[p].choice
                                       /\ loc'[p].inv = loc[p].inv))
       /\ (out'.kind = "post" /\ out'.target = "thanks") =>
             \E p \in Procs :
                /\ Thanks(p)
                /\ {"insert_selection", "update_invite"} \subseteq loc[p].writes
                /\ loc[p].inv.id \in DOMAIN invites => IsUsed(loc[p].inv.id)]_vars

\* a submission with notes has just answered with the thank-you view and its
\* selection and the used timestamp are in place
C21_Witness ==
    /\ out.kind = "post" /\ out.target = "thanks"
    /\ \E i \in DOMAIN invites :
          /\ invites[i].token = out.token /\ IsUsed(i)
          /\ \E s \in SelectionsOf(i) :
                selections[s].dinner_choice = <<"Pasta night">>
                /\ selections[s].notes # NullText

\* process p takes a step of a submission
PostStep(p) ==
    \/ pc[p] = "done" /\ pc'[p] = "post_date_night"
    \/ pc[p] \in {"post_date_night", "post_insert", "post_update", "post_notify"}
       /\ pc'[p] # pc[p]

\* C22: no step of a submission changes a date night, an existing selection or the
\* set of invites; it changes at most the used timestamp of the invite it read by
\* its token, and the request adds at most one selection, which refers to that
\* invite; a submission refused at its first statement writes nothing.
C22_SubmissionTouchesItsInviteOnly ==
    [][/\ (pc' = pc /\ out'.kind = "post") => UNCHANGED db
       /\ \A p \in Procs :
             PostStep(p) =>
               LET inv == IF pc[p] = "done" THEN loc'[p].inv ELSE loc[p].inv
                   token == IF pc[p] = "done" THEN loc'[p].token ELSE loc[p].token
               IN /\ inv.token = token
                  /\ UNCHANGED date_nights
                  /\ DOMAIN invites' = DOMAIN invites
                  /\ \A i \in DOMAIN invites :
                        \/ invites'[i] = invites[i]
                        \/ /\ i = inv.id /\ invites[i].token = token
                           /\ invites'[i] = [invites[i] EXCEPT !.used_at = invites'[i].used_at]
                  /\ \A s \in DOMAIN selections :
                        s \in DOMAIN selections' /\ selections'[s] = selections[s]
                  /\ \A s \in DOMAIN selections' \ DOMAIN selections :
                        /\ selections'[s].invite_id = inv.id
                        /\ "insert_selection" \notin loc[p].writes
                  /\ Cardinality(DOMAIN selections' \ DOMAIN selections) <= 1]_vars

\* a submission has just answered with the thank-you view while another invite is
\* still pending
C22_Witness ==
    /\ out.kind = "post" /\ out.target = "thanks"
    /\ \E i \in DOMAIN invites, j \in DOMAIN invites :
          /\ invites[i].token = out.token /\ IsUsed(i)
          /\ j # i /\ ~IsUsed(j) /\ SelectionsOf(j) = {}

====
